---------------------------- MODULE Spec2Model ----------------------------
(***************************************************************************)
(* Model of src/pages/index.tsx: the server-side page renderer             *)
(* (getStaticProps), the Home component's render, and the client-side      *)
(* share action with its single-flight flag and its promise chain.         *)
(*                                                                         *)
(* A JavaScript string is a sequence of chunks.  A chunk is either one of  *)
(* the two characters JSON escapes inside a string literal (the double     *)
(* quote and the backslash) or a run of characters that needs no escape,   *)
(* kept whole ("title", "a").  A JSON text is a sequence of chunks too:    *)
(* the punctuation of JSON, the quote and the backslash, and plain runs.   *)
(***************************************************************************)
EXTENDS Integers, Sequences, FiniteSets, TLC

\* ------------------------------------------------------------- bounds
\* How many save requests the client may issue before the model stops issuing.
MaxShares == 2
\* How many snapshots the create-snapshot endpoint may store.
MaxSnapshots == 1
\* The longest document (in candidate elements) edit capture is applied to.
MaxDomLen == 2

\* ------------------------------------------------------------- JavaScript values
QUOTE == "\""
BACKSLASH == "\\"

JStr(s) == [t |-> "str", v |-> s]
JArr(es) == [t |-> "arr", v |-> es]
JObj(ms) == [t |-> "obj", v |-> ms]
JNull == [t |-> "null", v |-> <<>>]
Undefined == [t |-> "undefined", v |-> <<>>]
Member(k, val) == [k |-> k, val |-> val]

\* What JavaScript treats as true in `currentSnapshotId && (...)`.
Truthy(x) ==
  CASE x.t = "null" -> FALSE
    [] x.t = "undefined" -> FALSE
    [] x.t = "str" -> x.v # <<>>
    [] OTHER -> TRUE

\* ------------------------------------------------------------- JSON.stringify
RECURSIVE Escape(_)
Escape(s) ==
  IF s = <<>> THEN <<>>
  ELSE IF Head(s) = QUOTE \/ Head(s) = BACKSLASH
       THEN <<BACKSLASH, Head(s)>> \o Escape(Tail(s))
       ELSE <<Head(s)>> \o Escape(Tail(s))

Quoted(s) == <<QUOTE>> \o Escape(s) \o <<QUOTE>>

RECURSIVE Stringify(_)
RECURSIVE StringifyElems(_)
RECURSIVE StringifyMembers(_)
Stringify(x) ==
  CASE x.t = "str" -> Quoted(x.v)
    [] x.t = "arr" -> <<"[">> \o StringifyElems(x.v) \o <<"]">>
    [] x.t = "obj" -> <<"{">> \o StringifyMembers(x.v) \o <<"}">>
    [] OTHER -> <<"null">>
StringifyElems(es) ==
  IF es = <<>> THEN <<>>
  ELSE Stringify(Head(es))
         \o (IF Tail(es) = <<>> THEN <<>> ELSE <<",">> \o StringifyElems(Tail(es)))
StringifyMembers(ms) ==
  IF ms = <<>> THEN <<>>
  ELSE Quoted(Head(ms).k) \o <<":">> \o Stringify(Head(ms).val)
         \o (IF Tail(ms) = <<>> THEN <<>> ELSE <<",">> \o StringifyMembers(Tail(ms)))

\* ------------------------------------------------------------- JSON.parse
\* A parse step answers [ok, val, rest]: the value read and the text left.
Fail == [ok |-> FALSE, val |-> JNull, rest |-> <<>>]
Ok(val, rest) == [ok |-> TRUE, val |-> val, rest |-> rest]

\* The characters of a string literal after its opening quote.
RECURSIVE ScanString(_, _)
ScanString(s, acc) ==
  IF s = <<>> THEN Fail
  ELSE IF Head(s) = QUOTE THEN Ok(acc, Tail(s))
  ELSE IF Head(s) = BACKSLASH
       THEN IF Len(s) >= 2 /\ (s[2] = QUOTE \/ s[2] = BACKSLASH)
            THEN ScanString(Tail(Tail(s)), Append(acc, s[2]))
            ELSE Fail
       ELSE ScanString(Tail(s), Append(acc, Head(s)))

\* The one element of a singleton set: { F(r) : r \in {e} } evaluates e once
\* however often F uses r.
The(S) == CHOOSE r \in S : TRUE

RECURSIVE ParseValue(_)
RECURSIVE ParseElems(_, _)
RECURSIVE ParseMembers(_, _)
ParseValue(s) ==
  IF s = <<>> THEN Fail
  ELSE CASE Head(s) = QUOTE ->
              The({ IF r.ok THEN Ok(JStr(r.val), r.rest) ELSE Fail :
                      r \in {ScanString(Tail(s), <<>>)} })
         [] Head(s) = "[" ->
              IF Len(s) >= 2 /\ s[2] = "]" THEN Ok(JArr(<<>>), Tail(Tail(s)))
              ELSE ParseElems(Tail(s), <<>>)
         [] Head(s) = "{" ->
              IF Len(s) >= 2 /\ s[2] = "}" THEN Ok(JObj(<<>>), Tail(Tail(s)))
              ELSE ParseMembers(Tail(s), <<>>)
         [] Head(s) = "null" -> Ok(JNull, Tail(s))
         [] OTHER -> Fail
\* After an element r of an array: a comma and the next element, or the end.
ElemsAfter(r, acc) ==
  IF ~r.ok \/ r.rest = <<>> THEN Fail
  ELSE IF Head(r.rest) = "," THEN ParseElems(Tail(r.rest), Append(acc, r.val))
  ELSE IF Head(r.rest) = "]" THEN Ok(JArr(Append(acc, r.val)), Tail(r.rest))
  ELSE Fail
ParseElems(s, acc) == The({ ElemsAfter(r, acc) : r \in {ParseValue(s)} })
\* After the value r of the member named k of an object.
MembersAfter(k, r, acc) ==
  IF ~r.ok \/ r.rest = <<>> THEN Fail
  ELSE IF Head(r.rest) = ","
       THEN ParseMembers(Tail(r.rest), Append(acc, Member(k, r.val)))
  ELSE IF Head(r.rest) = "}"
       THEN Ok(JObj(Append(acc, Member(k, r.val))), Tail(r.rest))
  ELSE Fail
\* After the name k of a member: a colon and the member's value.
MemberValue(k, acc) ==
  IF ~k.ok \/ k.rest = <<>> \/ Head(k.rest) # ":" THEN Fail
  ELSE The({ MembersAfter(k.val, r, acc) : r \in {ParseValue(Tail(k.rest))} })
ParseMembers(s, acc) ==
  IF s = <<>> \/ Head(s) # QUOTE THEN Fail
  ELSE The({ MemberValue(k, acc) : k \in {ScanString(Tail(s), <<>>)} })

\* JSON.parse(text): [ok |-> FALSE] stands for the SyntaxError it throws.
JSONparse(text) ==
  The({ IF r.ok /\ r.rest = <<>> THEN Ok(r.val, <<>>) ELSE Fail :
          r \in {ParseValue(text)} })

\* ------------------------------------------------------------- the page
\* The Malleable regions of the page, in document order, with their default text
\* (an emoji is written out in words; no default text holds a quote or a backslash).
PageRegions ==
  << [id |-> "title", text |-> <<"My Static Site">>],
     [id |-> "feature-1-emoji", text |-> <<"(high voltage emoji)">>],
     [id |-> "feature-1-text", text |-> <<"Blazing fast">>],
     [id |-> "feature-2-emoji", text |-> <<"(satellite antenna emoji)">>],
     [id |-> "feature-2-text", text |-> <<"Always available">>] >>

\* The regions the model keeps: the first two of the page.
Regions == << PageRegions[1], PageRegions[2] >>

\* What a visitor may type into a region: the empty text and the two characters
\* JSON has to escape.
Texts == { <<>>, <<QUOTE>>, <<BACKSLASH>> }

\* A DOM element that is a candidate of the selector: the id of its parent
\* (NoId when the parent has no id attribute), its contenteditable attribute
\* and its innerText.
NoId == "(no id)"
Element(parentId, editable, text) ==
  [parentId |-> parentId, contenteditable |-> editable, innerText |-> text]

\* <Malleable id=... isActive={isEdit}>: a container carrying the id, whose child
\* is content-editable exactly in edit mode.
Malleable(id, isActive, text) ==
  Element(id, IF isActive THEN "true" ELSE "false", text)

VARIABLES
  isEdit,            \* useState(false): edit mode
  dom,               \* the candidate elements of the document, in document order
  hasSaveRequest,    \* useRef(false).current: the single-flight flag
  isSharingView,     \* useState(false): what the Snapshot bar shows
  currentSnapshotId, \* useState(null)
  requests,          \* the save requests whose promise chain has not finished
  issued,            \* how many POST /api/save the page has issued
  lastEvent,         \* history: what the last share() or promise chain did
  recordedStatus,    \* history: the status of the response setSnapshotId took its
                     \* argument from (0: none)
  store,             \* the bucket: object key -> the object's text
  created,           \* history: the batch submitted for each snapshot created
  cookie,            \* the browser's preview session: a snapshotId, or NoCookie
  entered,           \* history: the browser has entered preview at some time
  baseline,          \* history: the first page rendered before preview was ever entered
  last               \* history: the last page rendered, with the request it answered

clientVars == <<isEdit, dom, hasSaveRequest, isSharingView, currentSnapshotId,
                requests, issued, lastEvent, recordedStatus>>
serverVars == <<store, created, cookie, entered, baseline, last>>
vars == <<clientVars, serverVars>>

\* ------------------------------------------------------------- share()
\* line 86: if (hasSaveRequest.current) return;
ShareUnguarded == FALSE
ShareSuppressed == hasSaveRequest

\* line 89: document.querySelectorAll("[id] > [contenteditable=true]")
QuerySelectorAnyChild(d) == SelectSeq(d, LAMBDA e : e.parentId # NoId)
QuerySelectorAll(d) ==
  SelectSeq(d, LAMBDA e : e.parentId # NoId /\ e.contenteditable = "true")

\* lines 90-92: [].slice.call(els).map(({parentNode: {id}, innerText}) => ({id, innerText}))
FieldEdit(id, innerText) ==
  JObj(<< Member(<<"id">>, JStr(<<id>>)), Member(<<"innerText">>, JStr(innerText)) >>)
PersistContents(els) ==
  [i \in 1..Len(els) |-> FieldEdit(els[i].parentId, els[i].innerText)]

\* line 97: body: JSON.stringify(persistContents)
PostBody(persistContents) == Stringify(JArr(persistContents))

Request(body) == [body |-> body, phase |-> "sent", status |-> 0, resp |-> <<>>]

\* lines 78-84: setSharing
SetSharing(sharing) ==
  /\ hasSaveRequest' = sharing
  /\ isSharingView' = sharing

\* lines 85-99: the synchronous part of share().
share ==
  /\ UNCHANGED serverVars
  /\ IF ShareSuppressed
     THEN /\ lastEvent' = "suppressed"
          /\ UNCHANGED <<isEdit, dom, hasSaveRequest, isSharingView,
                         currentSnapshotId, requests, issued, recordedStatus>>
     ELSE /\ SetSharing(TRUE)
          /\ requests' = Append(requests,
                                Request(PostBody(PersistContents(QuerySelectorAll(dom)))))
          /\ issued' = issued + 1
          /\ lastEvent' = "issued"
          /\ UNCHANGED <<isEdit, dom, currentSnapshotId, recordedStatus>>

\* The Share button of the Snapshot bar, mounted in edit mode only (lines 267-274).
ClickShare ==
  /\ isEdit
  /\ ShareSuppressed \/ issued < MaxShares
  /\ share

\* lines 73, 131-264: toggleEdit and the re-render of every Malleable.
ToggleEdit ==
  /\ isEdit' = ~isEdit
  /\ dom' = [i \in DOMAIN dom |->
               Malleable(dom[i].parentId, ~isEdit, dom[i].innerText)]
  /\ UNCHANGED <<hasSaveRequest, isSharingView, currentSnapshotId, requests,
                 issued, lastEvent, recordedStatus>>
  /\ UNCHANGED serverVars

\* The visitor edits the text of a content-editable region in place.
TypeText(i, text) ==
  /\ dom[i].contenteditable = "true"
  /\ dom[i].innerText # text
  /\ dom' = [dom EXCEPT ![i].innerText = text]
  /\ UNCHANGED <<isEdit, hasSaveRequest, isSharingView, currentSnapshotId,
                 requests, issued, lastEvent, recordedStatus>>
  /\ UNCHANGED serverVars

\* ------------------------------------------------------------- POST /api/save
\* The snapshot identifier the endpoint generates for its n-th snapshot.
SnapshotIdOf(n) == ToString(n)

\* The endpoint's answers (section 6 of the design: JSON {snapshotId} on success,
\* a non-2xx status with an unspecified body on failure).
SavedBody(n) == Stringify(JObj(<< Member(<<"snapshotId">>, JStr(<<SnapshotIdOf(n)>>)) >>))
ErrorBodies(n) ==
  { <<"Internal Server Error">>,
    <<"null">>,
    Stringify(JObj(<< Member(<<"message">>, JStr(<<"PersistFailure">>)) >>)),
    Stringify(JObj(<< Member(<<"snapshotId">>, JStr(<<SnapshotIdOf(n)>>)),
                      Member(<<"message">>, JStr(<<"PersistFailure">>)) >>)) }
SaveResponses(n) ==
  {[status |-> 200, resp |-> SavedBody(n)]}
    \cup {[status |-> 500, resp |-> b] : b \in ErrorBodies(n)}

RemoveAt(q, r) == [i \in 1..(Len(q) - 1) |-> IF i < r THEN q[i] ELSE q[i + 1]]

\* The endpoint has answered request r; the answer is on its way to the page.
Respond(r) ==
  /\ requests[r].phase = "sent"
  /\ \E a \in SaveResponses(issued) :
       requests' = [requests EXCEPT ![r].phase = "served",
                                    ![r].status = a.status,
                                    ![r].resp = a.resp]
  /\ UNCHANGED <<isEdit, dom, hasSaveRequest, isSharingView, currentSnapshotId,
                 issued, lastEvent, recordedStatus>>
  /\ UNCHANGED serverVars

\* lines 107-109: .finally(() => setSharing(false)), the end of request r's chain.
FinallyKeepsFlag(r) ==
  /\ requests' = RemoveAt(requests, r)
  /\ UNCHANGED <<hasSaveRequest, isSharingView>>
Finally(r) ==
  /\ requests' = RemoveAt(requests, r)
  /\ SetSharing(FALSE)

\* lines 94-99, 107: fetch rejects (the network fails before or after the endpoint
\* answered); both then-callbacks are skipped and finally runs.
FetchReject(r) ==
  /\ requests[r].phase \in {"sent", "served"}
  /\ Finally(r)
  /\ lastEvent' = "rejected"
  /\ UNCHANGED <<isEdit, dom, currentSnapshotId, issued, recordedStatus>>
  /\ UNCHANGED serverVars

\* lines 100-103: fetch resolves with any status; res.json() starts reading the body.
FetchResolve(r) ==
  /\ requests[r].phase = "served"
  /\ requests' = [requests EXCEPT ![r].phase = "json"]
  /\ UNCHANGED <<isEdit, dom, hasSaveRequest, isSharingView, currentSnapshotId,
                 issued, lastEvent, recordedStatus>>
  /\ UNCHANGED serverVars

\* value.snapshotId of a parsed body (undefined when there is no such property).
RECURSIVE Lookup(_, _)
Lookup(ms, k) ==
  IF ms = <<>> THEN Undefined
  ELSE IF ms[Len(ms)].k = k THEN ms[Len(ms)].val
  ELSE Lookup(SubSeq(ms, 1, Len(ms) - 1), k)
Prop(x, k) == IF x.t = "obj" THEN Lookup(x.v, k) ELSE Undefined

\* lines 102-109: res.json() settles; ({snapshotId}) => setSnapshotId(snapshotId);
\* then finally.  A body that is not JSON rejects; destructuring null throws.
JsonSettle(r) ==
  /\ requests[r].phase = "json"
  /\ \E p \in {JSONparse(requests[r].resp)} :
         IF ~p.ok
         THEN /\ lastEvent' = "nonjson"
              /\ UNCHANGED <<currentSnapshotId, recordedStatus>>
         ELSE IF p.val.t = "null"
         THEN /\ lastEvent' = "typeerror"
              /\ UNCHANGED <<currentSnapshotId, recordedStatus>>
         ELSE /\ currentSnapshotId' = Prop(p.val, <<"snapshotId">>)
              /\ recordedStatus' = requests[r].status
              /\ lastEvent' = IF Prop(p.val, <<"snapshotId">>) = Undefined
                              THEN "nosnapshotid" ELSE "recorded"
  /\ Finally(r)
  /\ UNCHANGED <<isEdit, dom, issued>>
  /\ UNCHANGED serverVars

\* lines 119-124: the share-link dialog is mounted while currentSnapshotId is truthy.
DialogShown == Truthy(currentSnapshotId)

\* line 70: clearSnapshot, the dialog's onExit.
ClearSnapshot ==
  /\ DialogShown
  /\ currentSnapshotId' = JNull
  /\ recordedStatus' = 0
  /\ UNCHANGED <<isEdit, dom, hasSaveRequest, isSharingView, requests, issued,
                 lastEvent>>
  /\ UNCHANGED serverVars

\* ------------------------------------------------------------- the blob store
\* line 39: Key: `${snapshotId}.json`
KeyWithoutExtension(snapshotId) == <<snapshotId>>
Key(snapshotId) == <<snapshotId, ".json">>

\* The key layout of the create-snapshot endpoint: <snapshotId>.json.
SnapshotKey(snapshotId) == <<snapshotId, ".json">>

\* An object of the bucket that no snapshot wrote, and whose text is not JSON.
ForeignId == "foreign"
ForeignText == <<"not json">>

Put(key, text) ==
  [k \in DOMAIN store \cup {key} |-> IF k = key THEN text ELSE store[k]]

\* lines 36-41: the outcomes of s3.getObject(...).promise().  A key that is absent
\* is refused with 403 (no s3:ListBucket on the private bucket) or with 404; any
\* call may fail with a service error.
GetObject(key) ==
  IF key \in DOMAIN store
  THEN { [ok |-> TRUE, statusCode |-> 200, Body |-> store[key]],
         [ok |-> FALSE, statusCode |-> 500, Body |-> <<>>] }
  ELSE { [ok |-> FALSE, statusCode |-> c, Body |-> <<>>] : c \in {403, 404, 500} }
NoCall == [ok |-> FALSE, statusCode |-> 0, Body |-> <<>>]

\* ------------------------------------------------------------- getStaticProps
NoCookie == ""
\* What Next.js hands to getStaticProps: preview, and previewData when preview is set.
Context(c) == [preview |-> c # NoCookie, previewData |-> [snapshotId |-> c]]

NotExistMessage == "The requested preview edit does not exist!"
GenericMessage ==
  "An unknown error has occurred. Please refresh the page or exit Preview Mode."

\* The props of the page; hasError FALSE, message "", snapshotId "" and contents
\* Undefined stand for a property that is not set.
Props(isPreview, hasError, message, snapshotId, contents) ==
  [isPreview |-> isPreview, hasError |-> hasError, message |-> message,
   snapshotId |-> snapshotId, contents |-> contents]
NormalProps == Props(FALSE, FALSE, "", "", Undefined)
ErrorProps(message) == Props(FALSE, TRUE, message, "", Undefined)

\* What one call of getStaticProps did: the props it returned, the store calls it
\* made, and whether an exception left it.
Result(props, calls, threw) == [props |-> props, calls |-> calls, threw |-> threw]
GetCall(key) == [op |-> "getObject", Key |-> key]

\* lines 55-57: the message chosen from the caught error's statusCode.
ErrorMessage(statusCode) ==
  IF statusCode = 403 THEN NotExistMessage ELSE GenericMessage

\* lines 22-63.  o is the outcome of the getObject call (unused without preview).
\* A SyntaxError of JSON.parse carries no statusCode (0 here).
getStaticPropsParseOutsideTry(ctx, o) ==
  IF ctx.preview
  THEN LET snapshotId == ctx.previewData.snapshotId
           parsed == JSONparse(o.Body)
       IN  IF ~o.ok
           THEN Result(ErrorProps(ErrorMessage(o.statusCode)),
                       <<GetCall(Key(snapshotId))>>, FALSE)
           ELSE IF ~parsed.ok
           THEN Result(NormalProps, <<GetCall(Key(snapshotId))>>, TRUE)
           ELSE Result(Props(TRUE, FALSE, "", snapshotId, parsed.val),
                       <<GetCall(Key(snapshotId))>>, FALSE)
  ELSE Result(NormalProps, <<>>, FALSE)
getStaticPropsUnparsed(ctx, o) ==
  IF ctx.preview
  THEN LET snapshotId == ctx.previewData.snapshotId
       IN  IF o.ok
           THEN Result(Props(TRUE, FALSE, "", snapshotId, JStr(o.Body)),
                       <<GetCall(Key(snapshotId))>>, FALSE)
           ELSE Result(ErrorProps(ErrorMessage(o.statusCode)),
                       <<GetCall(Key(snapshotId))>>, FALSE)
  ELSE Result(NormalProps, <<>>, FALSE)
getStaticPropsCached(ctx, o) ==
  IF ctx.preview
  THEN LET snapshotId == ctx.previewData.snapshotId
           parsed == JSONparse(o.Body)
       IN  IF o.ok /\ parsed.ok
           THEN Result(Props(TRUE, FALSE, "", snapshotId, parsed.val),
                       <<GetCall(Key(snapshotId))>>, FALSE)
           ELSE Result(ErrorProps(ErrorMessage(IF o.ok THEN 0 ELSE o.statusCode)),
                       <<GetCall(Key(snapshotId))>>, FALSE)
  ELSE IF last.rendered /\ last.result.props.isPreview
       THEN Result(last.result.props, <<>>, FALSE)
       ELSE Result(NormalProps, <<>>, FALSE)
getStaticProps(ctx, o) ==
  IF ctx.preview
  THEN LET snapshotId == ctx.previewData.snapshotId
           parsed == JSONparse(o.Body)
       IN  IF o.ok /\ parsed.ok
           THEN Result(Props(TRUE, FALSE, "", snapshotId, parsed.val),
                       <<GetCall(Key(snapshotId))>>, FALSE)
           ELSE Result(ErrorProps(ErrorMessage(IF o.ok THEN 0 ELSE o.statusCode)),
                       <<GetCall(Key(snapshotId))>>, FALSE)
  ELSE Result(NormalProps, <<>>, FALSE)

\* ------------------------------------------------------------- Home
\* lines 112-130: what Home renders from its props when it mounts: the overlay
\* handed to every Malleable, the "Preview Mode" alert with the /api/exit link,
\* and the texts of the banner (props.message is rendered nowhere, line 113).
HomeAlertOnPreviewOnly(props) ==
  [edits |-> IF props.isPreview THEN props.contents ELSE JArr(<<>>),
   alert |-> props.isPreview,
   banner |-> IF props.isPreview THEN {"Preview Mode"} ELSE {}]
Home(props) ==
  [edits |-> IF props.isPreview THEN props.contents ELSE JArr(<<>>),
   alert |-> props.isPreview \/ props.hasError,
   banner |-> IF props.isPreview \/ props.hasError THEN {"Preview Mode"} ELSE {}]

\* The framework's error page, shown when getStaticProps throws.
ErrorPage == [edits |-> JArr(<<>>), alert |-> FALSE, banner |-> {"500"}]

\* One rendered page, with the request it answered: its context, the outcome of
\* its getObject call, whether the bucket held <snapshotId>.json at that time, and
\* whether the browser had entered preview before.
NoRender ==
  [rendered |-> FALSE, ctx |-> Context(NoCookie), outcome |-> NoCall,
   stored |-> FALSE, entered |-> FALSE, result |-> Result(NormalProps, <<>>, FALSE),
   view |-> Home(NormalProps)]

\* A page load: getStaticProps runs for the request, then Home renders its props.
Render ==
  /\ LET ctx == Context(cookie)
     IN  \E o \in (IF ctx.preview THEN GetObject(Key(ctx.previewData.snapshotId))
                                 ELSE {NoCall}) :
           LET res == getStaticProps(ctx, o)
               page == [rendered |-> TRUE, ctx |-> ctx, outcome |-> o,
                        stored |-> SnapshotKey(cookie) \in DOMAIN store,
                        entered |-> entered, result |-> res,
                        view |-> IF res.threw THEN ErrorPage ELSE Home(res.props)]
           IN  /\ last' = page
               /\ baseline' = IF ~entered /\ ~baseline.rendered THEN page ELSE baseline
  /\ UNCHANGED <<store, created, cookie, entered>>
  /\ UNCHANGED clientVars

\* ------------------------------------------------------------- the endpoints
\* The batches a page can submit: one edit per region, each region at most once.
EditsOf(ids) ==
  UNION { { [i \in 1..Len(ids) |-> FieldEdit(ids[i], f[i])] } :
            f \in [1..Len(ids) -> Texts] }
RegionIds == {Regions[i].id : i \in DOMAIN Regions}
IdSeqs ==
  UNION { {q \in [1..n -> RegionIds] : \A a, b \in 1..n : a # b => q[a] # q[b]} :
            n \in 0..Len(Regions) }
ValidBatches == UNION {EditsOf(q) : q \in IdSeqs}

\* POST /api/save, createSnapshot: the body the page sent is parsed, a fresh
\* snapshotId is generated, and the batch is stored as JSON under its key.  (A
\* failed put stores nothing and changes no state.)
Save(edits) ==
  /\ Len(created) < MaxSnapshots
  /\ LET batch == JSONparse(PostBody(edits))
         snapshotId == SnapshotIdOf(Len(created) + 1)
     IN  /\ batch.ok
         /\ store' = Put(SnapshotKey(snapshotId), Stringify(batch.val))
  /\ created' = Append(created, edits)
  /\ UNCHANGED <<cookie, entered, baseline, last>>
  /\ UNCHANGED clientVars

\* The identifiers a preview link may carry: those of snapshots, one of an object
\* no snapshot wrote, and one that nothing was ever stored under.
MissingId == "missing"
PreviewIds ==
  {SnapshotIdOf(n) : n \in 1..MaxSnapshots} \cup {ForeignId, MissingId}

\* GET /api/share/[snapshotId], enterPreview: the signed session marker is set for
\* a non-empty snapshotId; existence is checked at render time only.
EnterPreview(snapshotId) ==
  /\ snapshotId # ""
  /\ cookie # snapshotId
  /\ cookie' = snapshotId
  /\ entered' = TRUE
  /\ UNCHANGED <<store, created, baseline, last>>
  /\ UNCHANGED clientVars

\* GET /api/exit, exitPreview: the session marker is cleared.
ExitPreview ==
  /\ cookie # NoCookie
  /\ cookie' = NoCookie
  /\ UNCHANGED <<store, created, entered, baseline, last>>
  /\ UNCHANGED clientVars

\* ------------------------------------------------------------- specifications
InitClient ==
  /\ isEdit = FALSE
  /\ hasSaveRequest = FALSE
  /\ isSharingView = FALSE
  /\ currentSnapshotId = JNull
  /\ requests = <<>>
  /\ issued = 0
  /\ lastEvent = "none"
  /\ recordedStatus = 0

InitServer ==
  /\ store = [k \in {SnapshotKey(ForeignId)} |-> ForeignText]
  /\ created = <<>>
  /\ cookie = NoCookie
  /\ entered = FALSE
  /\ baseline = NoRender
  /\ last = NoRender

\* The page as it mounts, the bucket before any snapshot.
Init ==
  /\ InitClient
  /\ dom = [i \in DOMAIN Regions |-> Malleable(Regions[i].id, FALSE, Regions[i].text)]
  /\ InitServer

Settle ==
  \E r \in DOMAIN requests :
    Respond(r) \/ FetchReject(r) \/ FetchResolve(r) \/ JsonSettle(r)

Next ==
  \/ ToggleEdit
  \/ \E i \in DOMAIN dom, text \in Texts : TypeText(i, text)
  \/ ClickShare
  \/ \E r \in DOMAIN requests : Respond(r)
  \/ \E r \in DOMAIN requests : FetchReject(r)
  \/ \E r \in DOMAIN requests : FetchResolve(r)
  \/ \E r \in DOMAIN requests : JsonSettle(r)
  \/ ClearSnapshot

\* The client page: editing, sharing, and the promise chain of each save request.
Spec == Init /\ [][Next]_vars

\* The server: snapshots are created, previews entered and left, pages rendered.
NextRender ==
  \/ \E edits \in ValidBatches : Save(edits)
  \/ \E snapshotId \in PreviewIds : EnterPreview(snapshotId)
  \/ ExitPreview
  \/ Render

SpecRender == Init /\ [][NextRender]_vars

\* Edit capture as a function of the document: share() applied to any document.
Elements ==
  { Element(p, e, text) :
      p \in RegionIds \cup {NoId}, e \in {"true", "false"}, text \in Texts }
Documents == UNION {[1..n -> Elements] : n \in 0..MaxDomLen}

InitCapture ==
  /\ InitClient
  /\ dom \in Documents
  /\ InitServer

NextCapture == share

SpecCapture == InitCapture /\ [][NextCapture]_vars

\* Every issued save request eventually resolves or fails.
FairSpec == Spec /\ WF_vars(Settle)

\* ------------------------------------------------------------- the claims
\* C1.  Single-flight share: at most one save request is outstanding at any time,
\* and while one is outstanding no step issues another request, adds one to the
\* outstanding ones, or changes the body of the outstanding one.
C1_SingleFlight ==
  /\ [](Len(requests) <= 1)
  /\ [][Len(requests) > 0 =>
          /\ issued' = issued
          /\ Len(requests') <= Len(requests)
          /\ Len(requests') > 0 => requests'[1].body = requests[1].body]_vars

\* A second share() was invoked while the first request was outstanding.
C1_Witness == lastEvent = "suppressed" /\ Len(requests) = 1 /\ issued = 1

\* C5.  A failed save request is never recorded: the share-link dialog is shown
\* only for a snapshotId taken from a 2xx response.
C5_FailedShareRecordsNothing ==
  DialogShown => (recordedStatus >= 200 /\ recordedStatus <= 299)

\* C8.  The single-flight flag is set exactly while a save request is
\* outstanding, it is eventually cleared whatever the outcome, and a share()
\* invoked while it is clear is not suppressed.
C8_ShareReenabled ==
  /\ [](hasSaveRequest <=> requests # <<>>)
  /\ (hasSaveRequest ~> ~hasSaveRequest)
  /\ [][~hasSaveRequest => lastEvent' # "suppressed"]_vars

\* The second request was issued after the first completed, and was rejected.
C8_Witness ==
  ~hasSaveRequest /\ requests = <<>> /\ issued = 2 /\ lastEvent = "rejected"

\* The editable regions of a document, in document order: the elements marked
\* contenteditable whose container carries an id.
RECURSIVE EditableRegions(_)
EditableRegions(d) ==
  IF d = <<>> THEN <<>>
  ELSE (IF Head(d).contenteditable = "true" /\ Head(d).parentId # NoId
        THEN <<Head(d)>> ELSE <<>>) \o EditableRegions(Tail(d))

\* C7.  Edit capture: the body of a save request is the JSON of an array with
\* one {id, innerText} entry per editable region of the document, in document
\* order, each with the id of the region's container and its text.
C7_EditCapture ==
  \A r \in DOMAIN requests :
    LET sent == JSONparse(requests[r].body)
        regions == EditableRegions(dom)
    IN  /\ sent.ok
        /\ sent.val.t = "arr"
        /\ Len(sent.val.v) = Len(regions)
        /\ \A k \in 1..Len(regions) :
             sent.val.v[k] =
               JObj(<< Member(<<"id">>, JStr(<<regions[k].parentId>>)),
                       Member(<<"innerText">>, JStr(regions[k].innerText)) >>)

\* A batch was sent from a document whose two editable regions appear in the
\* reverse of the page's order.
C7_Witness ==
  /\ Len(requests) = 1
  /\ Len(dom) = 2
  /\ dom[1] = Element(Regions[2].id, "true", <<QUOTE>>)
  /\ dom[2] = Element(Regions[1].id, "true", <<BACKSLASH>>)

\* The snapshot a rendered page asked for was one createSnapshot had stored.
AskedForSnapshot ==
  /\ last.rendered
  /\ last.ctx.preview
  /\ last.stored
  /\ \E n \in DOMAIN created : SnapshotIdOf(n) = last.ctx.previewData.snapshotId
SubmittedEdits ==
  created[CHOOSE n \in DOMAIN created :
            SnapshotIdOf(n) = last.ctx.previewData.snapshotId]

\* C2 as stated.  Round trip: a page rendered with a preview session for a stored
\* snapshot is in Preview state and its overlay is the submitted batch.
C2_RoundTripAlways ==
  AskedForSnapshot =>
    /\ last.result.props.isPreview
    /\ last.view.edits = JArr(SubmittedEdits)

\* C2 as amended.  Round trip: a page rendered with a preview session for a stored
\* snapshot, whose getObject call succeeded, is in Preview state and its overlay
\* is the submitted batch.
C2_RoundTrip ==
  (AskedForSnapshot /\ last.outcome.ok) =>
    /\ last.result.props.isPreview
    /\ last.view.edits = JArr(SubmittedEdits)

\* A batch of two edits, one of them a quote, came back as the overlay.
C2_Witness ==
  /\ AskedForSnapshot
  /\ last.outcome.ok
  /\ Len(SubmittedEdits) = 2
  /\ SubmittedEdits[1] = FieldEdit(Regions[2].id, <<QUOTE>>)
  /\ last.view.edits = JArr(SubmittedEdits)

\* C3.  Not found: a page rendered with a preview session for a snapshotId nothing
\* is stored under, the store answering 403 or 404, is the degraded page and
\* shows the visitor that the requested preview does not exist.
C3_NotFoundBanner ==
  (/\ last.rendered
   /\ last.ctx.preview
   /\ ~last.stored
   /\ last.outcome.statusCode \in {403, 404}) =>
    /\ ~last.result.threw
    /\ ~last.result.props.isPreview
    /\ last.result.props.hasError
    /\ last.result.props.message = NotExistMessage
    /\ NotExistMessage \in last.view.banner

\* A preview render failed: the getObject call, or the parse of what it returned.
PreviewRenderFailed ==
  /\ last.rendered
  /\ last.ctx.preview
  /\ (~last.outcome.ok \/ ~JSONparse(last.outcome.Body).ok)

\* C4.  A failed preview render returns the degraded page (isPreview false,
\* hasError true, a message, the empty overlay), with the generic message unless
\* the store reported not-found, and no exception leaves the renderer.
C4_PreviewNeverHardFails ==
  PreviewRenderFailed =>
    /\ ~last.result.threw
    /\ ~last.result.props.isPreview
    /\ last.result.props.hasError
    /\ last.result.props.message # ""
    /\ last.view.edits = JArr(<<>>)
    /\ (last.outcome.ok \/ last.outcome.statusCode \notin {403, 404})
         => last.result.props.message = GenericMessage

\* The stored object was fetched and is not JSON.
C4_Witness ==
  PreviewRenderFailed /\ last.outcome.ok /\ last.result.props.hasError

\* C6.  Idempotent exit: a page rendered without a preview session is the page
\* the browser was given before it ever entered preview.
C6_IdempotentExit ==
  (last.rendered /\ ~last.ctx.preview /\ baseline.rendered) =>
    /\ last.result = baseline.result
    /\ last.view = baseline.view

\* A page was rendered after preview was entered and left again.
C6_Witness ==
  /\ last.rendered
  /\ last.entered
  /\ ~last.ctx.preview
  /\ baseline.rendered
  /\ Len(created) > 0

\* C9.  Store access: a render with a preview session makes exactly one store
\* call, a getObject of <snapshotId>.json; a render without one makes no store
\* call and gives the Normal page.
C9_StoreAccess ==
  last.rendered =>
    IF last.ctx.preview
    THEN last.result.calls =
           << [op |-> "getObject",
               Key |-> <<last.ctx.previewData.snapshotId, ".json">>] >>
    ELSE /\ last.result.calls = <<>>
         /\ ~last.result.props.isPreview
         /\ ~last.result.props.hasError
         /\ last.view.edits = JArr(<<>>)

\* A page was rendered in Preview state from one getObject call.
C9_Witness ==
  /\ last.rendered
  /\ last.ctx.preview
  /\ Len(last.result.calls) = 1
  /\ last.result.props.isPreview

\* C10.  The "Preview Mode" alert with the exit link is on every page rendered
\* with a preview session and on no other, and isPreview and hasError are never
\* both set.
C10_ExitAlwaysReachable ==
  last.rendered =>
    /\ last.view.alert <=> last.ctx.preview
    /\ ~(last.result.props.isPreview /\ last.result.props.hasError)

\* A preview render failed and the alert is on the page.
C10_Witness ==
  /\ last.rendered
  /\ last.ctx.preview
  /\ last.result.props.hasError
  /\ last.view.alert
=============================================================================
